---- MODULE Spec2Model ----
(***************************************************************************)
(* Model of backend/main.py: the /talk request orchestrator (normalise     *)
(* the request, transcribe, ask the language model, synthesise speech,     *)
(* translate failures) and the /health route, both served by one asyncio   *)
(* event loop.                                                             *)
(*                                                                         *)
(* Python strings are sequences of one-character strings.  None and a      *)
(* JSON value that is not a string are sentinels that no string over       *)
(* Alphabet equals.  Byte strings are sequences of integers in 0..255.     *)
(***************************************************************************)
EXTENDS Integers, Sequences, FiniteSets, TLC

\* ------------------------------------------------------------ bounds
MaxLen == 2
MaxBytes == 2

\* ------------------------------------------------------------ values
None == <<"None">>
NotStr == <<"NotStr">>
Alphabet == {" ", "a"}
ByteVals == {1, 2}

SeqsUpTo(S, n) == UNION {[1..k -> S] : k \in 0..n}
Strings == SeqsUpTo(Alphabet, MaxLen)
ByteStrings == SeqsUpTo(ByteVals, MaxBytes)
OptStrings == Strings \cup {None}
JsonVals == Strings \cup {None, NotStr}

\* str.strip(): drop leading and trailing whitespace.
RECURSIVE LStrip(_)
LStrip(s) == IF s # <<>> /\ Head(s) = " " THEN LStrip(Tail(s)) ELSE s
RECURSIVE RStrip(_)
RStrip(s) == IF s # <<>> /\ s[Len(s)] = " " THEN RStrip(SubSeq(s, 1, Len(s) - 1)) ELSE s
Strip(s) == RStrip(LStrip(s))

\* Python truthiness of an Optional[str], and `a or b`.
Truthy(x) == x # None /\ x # <<>>
Or(a, b) == IF Truthy(a) THEN a ELSE b

\* Mutant of HasUtterance: tests `user_text is None` instead of `not user_text`.
HasUtterance_NoneOnly(t) == t # None
\* The test of `if not user_text:` before the reply stage.
HasUtterance(t) == Truthy(t)

\* (x or "").strip() or None
StripOrNone(x) == Or(Strip(Or(x, <<>>)), None)

\* read_body_text(payload, key), given payload.get(key) when payload is a dict.
IsDict(payload) == payload.kind = "dict"
read_body_text(payload, key) ==
    IF ~IsDict(payload) THEN None
    ELSE LET value == payload[key]
         IN  IF value \in {None, NotStr} THEN None
             ELSE Or(Strip(value), None)

\* ------------------------------------------------------------ base64
B64Alphabet ==
    << "A","B","C","D","E","F","G","H","I","J","K","L","M","N","O","P",
       "Q","R","S","T","U","V","W","X","Y","Z","a","b","c","d","e","f",
       "g","h","i","j","k","l","m","n","o","p","q","r","s","t","u","v",
       "w","x","y","z","0","1","2","3","4","5","6","7","8","9","+","/" >>
B64Char(i) == B64Alphabet[i + 1]

\* Mutant of b64encode: the "=" padding of the last group is left out.
RECURSIVE b64encode_unpadded(_)
b64encode_unpadded(b) ==
    IF Len(b) = 0 THEN <<>>
    ELSE IF Len(b) = 1 THEN
        LET n == b[1] * 65536
        IN  << B64Char(n \div 262144), B64Char((n \div 4096) % 64) >>
    ELSE IF Len(b) = 2 THEN
        LET n == b[1] * 65536 + b[2] * 256
        IN  << B64Char(n \div 262144), B64Char((n \div 4096) % 64),
               B64Char((n \div 64) % 64) >>
    ELSE
        LET n == b[1] * 65536 + b[2] * 256 + b[3]
        IN  << B64Char(n \div 262144), B64Char((n \div 4096) % 64),
               B64Char((n \div 64) % 64), B64Char(n % 64) >>
            \o b64encode_unpadded(SubSeq(b, 4, Len(b)))

\* base64.b64encode(b).decode("ascii")
RECURSIVE b64encode(_)
b64encode(b) ==
    IF Len(b) = 0 THEN <<>>
    ELSE IF Len(b) = 1 THEN
        LET n == b[1] * 65536
        IN  << B64Char(n \div 262144), B64Char((n \div 4096) % 64), "=", "=" >>
    ELSE IF Len(b) = 2 THEN
        LET n == b[1] * 65536 + b[2] * 256
        IN  << B64Char(n \div 262144), B64Char((n \div 4096) % 64),
               B64Char((n \div 64) % 64), "=" >>
    ELSE
        LET n == b[1] * 65536 + b[2] * 256 + b[3]
        IN  << B64Char(n \div 262144), B64Char((n \div 4096) % 64),
               B64Char((n \div 64) % 64), B64Char(n % 64) >>
            \o b64encode(SubSeq(b, 4, Len(b)))

\* ------------------------------------------------------------ requests
\* Content-Type header values as sent, and str.lower() of each.
JsonTypes == {"application/json", "Application/JSON; charset=UTF-8"}
MultipartTypes == {"multipart/form-data; boundary=x"}
UrlencodedTypes == {"application/x-www-form-urlencoded"}
OtherTypes == {"", "text/plain"}
Lower(ct) ==
    IF ct = "Application/JSON; charset=UTF-8" THEN "application/json; charset=utf-8"
    ELSE ct
\* `sub in content_type` for the two substrings the handler looks for.
Contains(ct, sub) ==
    CASE sub = "application/json" ->
             ct \in {"application/json", "application/json; charset=utf-8"}
      [] sub = "multipart/form-data" ->
             ct \in {"multipart/form-data; boundary=x"}
      [] OTHER -> FALSE

Fields(t, p, v) == [text |-> t, prompt |-> p, voice |-> v]
EmptyFields == Fields(None, None, None)
Voices == {None, <<" ", "a">>}
\* What request.json() yields: a dict, another JSON value, or a parse error.
JsonPayloads ==
    {[kind |-> "dict", text |-> t, prompt |-> p, voice |-> v] :
        t \in JsonVals, p \in JsonVals, v \in Voices}
    \cup {[kind |-> k, text |-> None, prompt |-> None, voice |-> None] :
        k \in {"list", "malformed"}}
NoPayload == [kind |-> "malformed", text |-> None, prompt |-> None, voice |-> None]
Forms == {Fields(t, p, v) : t \in OptStrings, p \in OptStrings, v \in Voices}
NoUpload == [present |-> FALSE, filename |-> ""]
Uploads == {[present |-> TRUE, filename |-> f] : f \in {"clip.wav", ""}}

\* The requests a client can send.  An uploaded file needs a multipart body;
\* form fields need a multipart or urlencoded body; a JSON body has neither.
Requests ==
    {[ctype |-> c, payload |-> p, form |-> EmptyFields, audio |-> NoUpload] :
        c \in JsonTypes, p \in JsonPayloads}
    \cup {[ctype |-> c, payload |-> NoPayload, form |-> f, audio |-> a] :
        c \in MultipartTypes, f \in Forms, a \in Uploads \cup {NoUpload}}
    \cup {[ctype |-> c, payload |-> NoPayload, form |-> f, audio |-> NoUpload] :
        c \in UrlencodedTypes, f \in Forms}
    \cup {[ctype |-> c, payload |-> NoPayload, form |-> EmptyFields, audio |-> NoUpload] :
        c \in OtherTypes}

\* talk()'s parameters audio = File(...), text = Body(...), voice = Body(...):
\* bound from the parsed form body.
AudioParam(r) == r.audio
TextParam(r) == r.form.text
VoiceParam(r) == r.form.voice

RequestIds == {"1f2e3d4c"}
VOICE_ID == <<"EXAVITQu4vr4xnSDxMaL">>

\* os.path.splitext(audio.filename or "")[1] or ".m4a"
SplitExt(filename) == IF filename = "clip.wav" THEN ".wav" ELSE ""
Suffix(filename) == IF SplitExt(filename) = "" THEN ".m4a" ELSE SplitExt(filename)
TempName(suffix) == <<"/tmp/tmpaudio", suffix>>

\* ------------------------------------------------------------ exceptions
Exc(cls, status, detail) == [cls |-> cls, status |-> status, detail |-> detail]
NoExc == Exc("none", 0, "")
HTTPException(status, detail) == Exc("HTTPException", status, detail)
UpstreamStatuses == {401, 429, 503}

\* What each adapter can raise; status 0 is an error that carries no response.
\* stt_local: whisper_model.transcribe fails.
SttFailures == {[exc |-> Exc("Exception", 0, "RuntimeError"), timeout |-> FALSE]}
\* ask_llm: the hub client raises an HTTP error with the upstream response, a
\* timeout error (a requests.HTTPError without response, or a plain
\* TimeoutError, by client version), or the reply has no text (len(None)).
LlmFailures ==
    {[exc |-> Exc("HTTPError", s, "HfHubHTTPError"), timeout |-> FALSE] :
        s \in UpstreamStatuses}
    \cup {[exc |-> Exc("HTTPError", 0, "InferenceTimeoutError"), timeout |-> TRUE],
          [exc |-> Exc("Exception", 0, "TimeoutError"), timeout |-> TRUE],
          [exc |-> Exc("Exception", 0, "TypeError"), timeout |-> FALSE]}
\* tts_elevenlabs: requests.post raises Timeout or ConnectionError (neither is
\* an HTTPError), or raise_for_status fails and HTTPException(status) is raised.
TtsFailures ==
    {[exc |-> HTTPException(s, "ElevenLabs error"), timeout |-> FALSE] :
        s \in UpstreamStatuses}
    \cup {[exc |-> Exc("Exception", 0, "requests.Timeout"), timeout |-> TRUE],
          [exc |-> Exc("Exception", 0, "requests.ConnectionError"), timeout |-> FALSE]}

\* Mutant of MapException: the catch-all `except Exception` clause is missing.
MapException_NoCatchAll(e) ==
    IF e.cls = "HTTPError"
    THEN HTTPException(IF e.status # 0 THEN e.status ELSE 502, e.detail)
    ELSE e

\* The except clauses of talk(): what leaves the handler for a raised exception.
MapException(e) ==
    IF e.cls = "HTTPException" THEN e
    ELSE IF e.cls = "HTTPError"
         THEN HTTPException(IF e.status # 0 THEN e.status ELSE 502, e.detail)
    ELSE HTTPException(500, "Internal server error")

\* ------------------------------------------------------------ responses
NoResp == [status |-> 0, body |-> [none |-> TRUE]]
JSONResponse(status, content) == [status |-> status, body |-> content]
SuccessContent(rid, reply, mp3) ==
    [request_id |-> rid, text |-> reply,
     audio_base64 |-> b64encode(mp3), audio_format |-> "mp3"]
ErrorContent(e, rid) == [error |-> e.detail, request_id |-> rid]
\* The server's answer to an exception no handler is registered for.
ServerError == [status |-> 500, body |-> [plain |-> "Internal Server Error"]]

Replies == {<<>>, <<"o", "k">>}

\* ------------------------------------------------------------ state
VARIABLES
    pc,            \* where the /talk coroutine stands
    req,           \* the request being handled
    request_id, content_type, user_text, chosen_voice, tmp_path,
    reply_text, mp3_bytes,   \* locals of talk()
    tmp,           \* name of the NamedTemporaryFile opened by the with block
    files,         \* temporary files that exist on disk
    exc,           \* the exception raised inside the try block, if any
    failure,       \* where that exception came from, and whether it was a timeout
    result,        \* what talk() exits with: a returned response or a raised exception
    resp,          \* the HTTP response sent for the /talk request
    calls,         \* adapters invoked so far, in order
    sttArg, sttOut, llmArg, ttsArg,  \* arguments and results of the adapter calls
    cleanupWarned, \* os.remove failed and the warning was logged
    health,        \* a concurrent GET /health: "none", "pending", "done"
    healthResp

vars == << pc, req, request_id, content_type, user_text, chosen_voice, tmp_path,
           reply_text, mp3_bytes, tmp, files, exc, failure, result, resp, calls,
           sttArg, sttOut, llmArg, ttsArg, cleanupWarned, health, healthResp >>

locals == << request_id, content_type, user_text, chosen_voice, tmp_path,
             reply_text, mp3_bytes, tmp >>
adapterIO == << calls, sttArg, sttOut, llmArg, ttsArg >>
healthVars == << health, healthResp >>

NoFailure == [stage |-> "none", timeout |-> FALSE]
NoResult == [kind |-> "none", value |-> NoResp, exc |-> NoExc]
NoTtsArg == [text |-> None, voice |-> None]

Init ==
    /\ pc = "idle"
    /\ req = [ctype |-> "", payload |-> NoPayload, form |-> EmptyFields, audio |-> NoUpload]
    /\ request_id = "" /\ content_type = "" /\ user_text = None
    /\ chosen_voice = None /\ tmp_path = None /\ reply_text = None
    /\ mp3_bytes = <<>> /\ tmp = None
    /\ files = {}
    /\ exc = NoExc /\ failure = NoFailure /\ result = NoResult /\ resp = NoResp
    /\ calls = <<>>
    /\ sttArg = None /\ sttOut = None /\ llmArg = None /\ ttsArg = NoTtsArg
    /\ cleanupWarned = FALSE
    /\ health = "none" /\ healthResp = NoResp

\* An exception e raised inside the try block at `stage`.
Raise(e, stage, timeout) ==
    /\ exc' = e
    /\ failure' = [stage |-> stage, timeout |-> timeout]
    /\ pc' = "except"

\* ------------------------------------------------------------ /talk
\* A request arrives; lines 228-241 run.
TalkStart ==
    /\ pc = "idle"
    /\ \E r \in Requests, rid \in RequestIds :
        /\ req' = r
        /\ request_id' = rid
        /\ content_type' = Lower(r.ctype)
        /\ chosen_voice' = StripOrNone(VoiceParam(r))
    /\ tmp_path' = None
    /\ user_text' = None
    /\ pc' = "normalize"
    /\ UNCHANGED << reply_text, mp3_bytes, tmp, files, exc, failure, result, resp,
                    adapterIO, cleanupWarned, healthVars >>

\* if "application/json" in content_type: payload = await request.json()
NormalizeJson ==
    /\ pc = "normalize"
    /\ Contains(content_type, "application/json")
    /\ pc' = "await_json"
    /\ UNCHANGED << req, locals, files, exc, failure, result, resp, adapterIO,
                    cleanupWarned, healthVars >>

JsonParsed ==
    /\ pc = "await_json"
    /\ LET payload == req.payload
       IN  /\ user_text' = Or(read_body_text(payload, "text"),
                              read_body_text(payload, "prompt"))
           /\ chosen_voice' = Or(chosen_voice, read_body_text(payload, "voice"))
    /\ pc' = "audio"
    /\ UNCHANGED << req, request_id, content_type, tmp_path, reply_text, mp3_bytes,
                    tmp, files, exc, failure, result, resp, adapterIO,
                    cleanupWarned, healthVars >>

\* elif "multipart/form-data" in content_type: form = await request.form()
NormalizeForm ==
    /\ pc = "normalize"
    /\ ~Contains(content_type, "application/json")
    /\ Contains(content_type, "multipart/form-data")
    /\ pc' = "await_form"
    /\ UNCHANGED << req, locals, files, exc, failure, result, resp, adapterIO,
                    cleanupWarned, healthVars >>

\* (form.get("text") or form.get("prompt") or "").strip() or None
FormText(form) == Or(Strip(Or(Or(form.text, form.prompt), <<>>)), None)

FormParsed ==
    /\ pc = "await_form"
    /\ LET form == req.form
       IN  /\ user_text' = FormText(form)
           /\ chosen_voice' = Or(Or(chosen_voice, Strip(Or(form.voice, <<>>))), None)
    /\ pc' = "audio"
    /\ UNCHANGED << req, request_id, content_type, tmp_path, reply_text, mp3_bytes,
                    tmp, files, exc, failure, result, resp, adapterIO,
                    cleanupWarned, healthVars >>

\* elif content_type: raise HTTPException(415)
Unsupported ==
    /\ pc = "normalize"
    /\ ~Contains(content_type, "application/json")
    /\ ~Contains(content_type, "multipart/form-data")
    /\ content_type # ""
    /\ Raise(HTTPException(415, "Unsupported content type"), "normalize", FALSE)
    /\ UNCHANGED << req, locals, files, result, resp, adapterIO, cleanupWarned,
                    healthVars >>

\* No Content-Type header: none of the three branches is taken.
NoContentType ==
    /\ pc = "normalize"
    /\ ~Contains(content_type, "application/json")
    /\ ~Contains(content_type, "multipart/form-data")
    /\ content_type = ""
    /\ pc' = "audio"
    /\ UNCHANGED << req, locals, files, exc, failure, result, resp, adapterIO,
                    cleanupWarned, healthVars >>

\* if audio is not None: with tempfile.NamedTemporaryFile(delete=False, ...) as tmp
CreateTemp ==
    /\ pc = "audio"
    /\ AudioParam(req).present
    /\ LET name == TempName(Suffix(AudioParam(req).filename))
       IN  \/ /\ tmp' = name
              /\ files' = files \cup {name}
              /\ pc' = "await_read"
              /\ UNCHANGED << exc, failure >>
           \/ /\ Raise(Exc("Exception", 0, "OSError"), "upload", FALSE)
              /\ UNCHANGED << tmp, files >>
    /\ UNCHANGED << req, request_id, content_type, user_text, chosen_voice, tmp_path,
                    reply_text, mp3_bytes, result, resp, adapterIO, cleanupWarned,
                    healthVars >>

\* raw = await audio.read(); tmp.write(raw); tmp_path = tmp.name; and, with no
\* inline text, the call of stt_local(log, tmp_path) is entered.
UploadStored ==
    /\ pc = "await_read"
    /\ tmp_path' = tmp
    /\ IF ~Truthy(user_text)
       THEN /\ pc' = "in_stt"
            /\ calls' = Append(calls, "stt")
            /\ sttArg' = tmp
       ELSE /\ pc' = "check"
            /\ UNCHANGED << calls, sttArg >>
    /\ UNCHANGED << req, request_id, content_type, user_text, chosen_voice,
                    reply_text, mp3_bytes, tmp, files, exc, failure, result, resp,
                    sttOut, llmArg, ttsArg, cleanupWarned, healthVars >>

\* audio.read() or tmp.write(raw) raises inside the with block: the file is
\* closed, not deleted, and tmp_path was never assigned.
UploadFails ==
    /\ pc = "await_read"
    /\ Raise(Exc("Exception", 0, "OSError"), "upload", FALSE)
    /\ UNCHANGED << req, locals, files, result, resp, adapterIO, cleanupWarned,
                    healthVars >>

\* elif user_text is None: user_text = (text or "").strip() or None
NoAudio ==
    /\ pc = "audio"
    /\ ~AudioParam(req).present
    /\ user_text' = IF user_text = None THEN StripOrNone(TextParam(req)) ELSE user_text
    /\ pc' = "check"
    /\ UNCHANGED << req, request_id, content_type, chosen_voice, tmp_path, reply_text,
                    mp3_bytes, tmp, files, exc, failure, result, resp, adapterIO,
                    cleanupWarned, healthVars >>

\* stt_local returns (result.get("text") or "").strip()
SttReturns ==
    /\ pc = "in_stt"
    /\ \E raw \in OptStrings :
        /\ user_text' = Strip(Or(raw, <<>>))
        /\ sttOut' = Strip(Or(raw, <<>>))
    /\ pc' = "check"
    /\ UNCHANGED << req, request_id, content_type, chosen_voice, tmp_path, reply_text,
                    mp3_bytes, tmp, files, exc, failure, result, resp, calls, sttArg,
                    llmArg, ttsArg, cleanupWarned, healthVars >>

SttRaises ==
    /\ pc = "in_stt"
    /\ \E f \in SttFailures : Raise(f.exc, "stt", f.timeout)
    /\ UNCHANGED << req, locals, files, result, resp, adapterIO, cleanupWarned,
                    healthVars >>

\* if not user_text: raise HTTPException(400)
MissingInput ==
    /\ pc = "check"
    /\ ~HasUtterance(user_text)
    /\ Raise(HTTPException(400, "Provide either text or audio input"), "validate", FALSE)
    /\ UNCHANGED << req, locals, files, result, resp, adapterIO, cleanupWarned,
                    healthVars >>

\* reply_text = ask_llm(log, user_text): the call is entered.
CallLlm ==
    /\ pc = "check"
    /\ HasUtterance(user_text)
    /\ pc' = "in_llm"
    /\ calls' = Append(calls, "llm")
    /\ llmArg' = user_text
    /\ UNCHANGED << req, locals, files, exc, failure, result, resp, sttArg, sttOut,
                    ttsArg, cleanupWarned, healthVars >>

\* ask_llm returns; mp3_bytes = tts_elevenlabs(log, reply_text, voice_id=chosen_voice)
\* is entered, with chosen_voice = voice_id or VOICE_ID inside it.
LlmReturns ==
    /\ pc = "in_llm"
    /\ \E answer \in Replies :
        /\ reply_text' = answer
        /\ ttsArg' = [text |-> answer, voice |-> Or(chosen_voice, VOICE_ID)]
    /\ pc' = "in_tts"
    /\ calls' = Append(calls, "tts")
    /\ UNCHANGED << req, request_id, content_type, user_text, chosen_voice, tmp_path,
                    mp3_bytes, tmp, files, exc, failure, result, resp, sttArg, sttOut,
                    llmArg, cleanupWarned, healthVars >>

\* Mutant of LlmRaises: a failed reply call is tried once more.
LlmRaises_Retry ==
    /\ pc = "in_llm"
    /\ IF Len(calls) < 3
       THEN /\ calls' = Append(calls, "llm")
            /\ UNCHANGED << pc, exc, failure >>
       ELSE /\ \E f \in LlmFailures : Raise(f.exc, "llm", f.timeout)
            /\ UNCHANGED calls
    /\ UNCHANGED << req, locals, files, result, resp, sttArg, sttOut, llmArg, ttsArg,
                    cleanupWarned, healthVars >>

LlmRaises ==
    /\ pc = "in_llm"
    /\ \E f \in LlmFailures : Raise(f.exc, "llm", f.timeout)
    /\ UNCHANGED << req, locals, files, result, resp, adapterIO, cleanupWarned,
                    healthVars >>

\* tts_elevenlabs returns response.content; talk() returns the JSONResponse.
TtsReturns ==
    /\ pc = "in_tts"
    /\ \E content \in ByteStrings :
        /\ mp3_bytes' = content
        /\ result' = [kind |-> "return",
                      value |-> JSONResponse(200, SuccessContent(request_id, reply_text, content)),
                      exc |-> NoExc]
    /\ pc' = "finally"
    /\ UNCHANGED << req, request_id, content_type, user_text, chosen_voice, tmp_path,
                    reply_text, tmp, files, exc, failure, resp, adapterIO,
                    cleanupWarned, healthVars >>

TtsRaises ==
    /\ pc = "in_tts"
    /\ \E f \in TtsFailures : Raise(f.exc, "tts", f.timeout)
    /\ UNCHANGED << req, locals, files, result, resp, adapterIO, cleanupWarned,
                    healthVars >>

\* except HTTPException / requests.HTTPError / Exception
Except ==
    /\ pc = "except"
    /\ result' = [kind |-> "raise", value |-> NoResp, exc |-> MapException(exc)]
    /\ pc' = "finally"
    /\ UNCHANGED << req, locals, files, exc, failure, resp, adapterIO, cleanupWarned,
                    healthVars >>

\* finally: if tmp_path: os.remove(tmp_path), a failed removal only logged.
Finally ==
    /\ pc = "finally"
    /\ IF Truthy(tmp_path)
       THEN \/ /\ files' = files \ {tmp_path}
               /\ UNCHANGED cleanupWarned
            \/ /\ cleanupWarned' = TRUE
               /\ UNCHANGED files
       ELSE UNCHANGED << files, cleanupWarned >>
    /\ pc' = "exit"
    /\ UNCHANGED << req, locals, exc, failure, result, resp, adapterIO, healthVars >>

\* talk() returned: the response is sent.
SendResponse ==
    /\ pc = "exit"
    /\ result.kind = "return"
    /\ resp' = result.value
    /\ pc' = "done"
    /\ UNCHANGED << req, locals, files, exc, failure, result, adapterIO,
                    cleanupWarned, healthVars >>

\* talk() raised: http_exception_handler answers an HTTPException; any other
\* exception has no registered handler.
http_exception_handler ==
    /\ pc = "exit"
    /\ result.kind = "raise"
    /\ resp' = IF result.exc.cls = "HTTPException"
               THEN JSONResponse(result.exc.status, ErrorContent(result.exc, request_id))
               ELSE ServerError
    /\ pc' = "done"
    /\ UNCHANGED << req, locals, files, exc, failure, result, adapterIO,
                    cleanupWarned, healthVars >>

\* ------------------------------------------------------------ event loop
\* talk() is a coroutine on the server's single event loop.  It gives the loop
\* up only at its awaits; stt_local, ask_llm and tts_elevenlabs are plain
\* synchronous calls made on the loop's thread.
Suspended == pc \in {"idle", "await_json", "await_form", "await_read", "done"}
InDependencyCall == pc \in {"in_stt", "in_llm", "in_tts"}

talkVars == << pc, req, locals, files, exc, failure, result, resp, adapterIO,
               cleanupWarned >>

HealthArrives ==
    /\ health = "none"
    /\ health' = "pending"
    /\ UNCHANGED << healthResp, talkVars >>

\* async def health(): return {"status": "ok"}; runs when the loop is free.
HealthServed ==
    /\ health = "pending"
    /\ Suspended
    /\ health' = "done"
    /\ healthResp' = JSONResponse(200, [status |-> "ok"])
    /\ UNCHANGED talkVars

Next ==
    \/ TalkStart
    \/ NormalizeJson \/ JsonParsed
    \/ NormalizeForm \/ FormParsed
    \/ Unsupported \/ NoContentType
    \/ CreateTemp \/ UploadStored \/ UploadFails \/ NoAudio
    \/ SttReturns \/ SttRaises
    \/ MissingInput \/ CallLlm
    \/ LlmReturns \/ LlmRaises
    \/ TtsReturns \/ TtsRaises
    \/ Except \/ Finally
    \/ SendResponse \/ http_exception_handler
    \/ HealthArrives \/ HealthServed

Spec == Init /\ [][Next]_vars

\* ------------------------------------------------------------ properties
Done == pc = "done"
Invoked(adapter) == \E i \in 1..Len(calls) : calls[i] = adapter
Adapters == {"stt", "llm", "tts"}

\* The request as its sender sees it.
HasAudio(r) == r.audio.present
SuppliedFields(r) == IF r.ctype \in JsonTypes THEN r.payload ELSE r.form
NonBlank(v) == v \notin {None, NotStr} /\ Strip(v) # <<>>
HasInlineText(r) ==
    NonBlank(SuppliedFields(r).text) \/ NonBlank(SuppliedFields(r).prompt)
InlineText(r) ==
    IF NonBlank(SuppliedFields(r).text) THEN Strip(SuppliedFields(r).text)
    ELSE Strip(SuppliedFields(r).prompt)
MediaType(ct) ==
    CASE ct \in JsonTypes -> "application/json"
      [] ct \in MultipartTypes -> "multipart/form-data"
      [] ct \in UrlencodedTypes -> "application/x-www-form-urlencoded"
      [] OTHER -> ct
AcceptedMediaTypes ==
    {"application/json", "multipart/form-data", "application/x-www-form-urlencoded"}
NoUsableUtterance ==
    \/ ~HasInlineText(req) /\ ~HasAudio(req)
    \/ HasAudio(req) /\ ~HasInlineText(req) /\ sttOut = <<>>
StructuredError(r) ==
    /\ DOMAIN r.body = {"error", "request_id"}
    /\ r.body.error # ""
    /\ r.status \in 400..599

\* Decoding of standard base64 text; <<-1>> when the text is not well formed.
B64Chars == {B64Alphabet[i] : i \in 1..64}
B64Index(c) == CHOOSE i \in 0..63 : B64Alphabet[i + 1] = c
RECURSIVE B64Decode(_)
B64Decode(s) ==
    IF s = <<>> THEN <<>>
    ELSE IF Len(s) < 4 \/ s[1] \notin B64Chars \/ s[2] \notin B64Chars THEN <<-1>>
    ELSE LET i1 == B64Index(s[1])
             i2 == B64Index(s[2])
         IN  IF s[3] = "=" /\ s[4] = "=" /\ Len(s) = 4
             THEN << i1 * 4 + i2 \div 16 >>
             ELSE IF s[3] \notin B64Chars THEN <<-1>>
             ELSE LET i3 == B64Index(s[3])
                  IN  IF s[4] = "=" /\ Len(s) = 4
                      THEN << i1 * 4 + i2 \div 16, (i2 % 16) * 16 + i3 \div 4 >>
                      ELSE IF s[4] \notin B64Chars THEN <<-1>>
                      ELSE << i1 * 4 + i2 \div 16, (i2 % 16) * 16 + i3 \div 4,
                              (i3 % 4) * 64 + B64Index(s[4]) >>
                           \o B64Decode(SubSeq(s, 5, Len(s)))

\* C1: when the handler of a request that carries an audio file has returned,
\* and os.remove did not fail, the temporary file no longer exists, whatever
\* the outcome of the request.
C1_TempFileRemoved ==
    (Done /\ HasAudio(req) /\ ~cleanupWarned) => files = {}

\* C2 (as claimed): a request that yields no usable utterance is answered 400
\* and neither ask_llm nor tts_elevenlabs is invoked.  Stated for the requests
\* whose content type is not application/x-www-form-urlencoded, so that the
\* rejection of that type (C4) plays no part in it.
C2_NoUtteranceIs400 ==
    (Done /\ NoUsableUtterance /\ req.ctype \notin UrlencodedTypes) =>
        resp.status = 400 /\ ~Invoked("llm") /\ ~Invoked("tts")

\* C2 (amended): a request that yields no usable utterance invokes neither
\* ask_llm nor tts_elevenlabs, and is answered 400 unless its content type was
\* rejected as unsupported, in which case it is answered 415.
C2_NoUtteranceIs400Or415 ==
    (Done /\ NoUsableUtterance) =>
        /\ ~Invoked("llm") /\ ~Invoked("tts")
        /\ resp.status = IF failure.stage = "normalize" THEN 415 ELSE 400

C2_Witness ==
    /\ Done /\ HasAudio(req) /\ ~HasInlineText(req) /\ sttOut = <<>>
    /\ resp.status = 400 /\ calls = <<"stt">>

\* C3: stt_local is invoked for a request whose upload was stored if and only
\* if the request carries an audio file and no non-empty inline text (text or
\* prompt field).
C3_SttIffAudioWithoutInlineText ==
    (Done /\ failure.stage # "upload") =>
        (Invoked("stt") <=> (HasAudio(req) /\ ~HasInlineText(req)))

\* C4: a request is answered 415, with no adapter invoked, if and only if its
\* content type is none of application/json, multipart/form-data and
\* application/x-www-form-urlencoded.
C4_415IffUnsupportedType ==
    Done =>
        /\ resp.status = 415 <=> MediaType(req.ctype) \notin AcceptedMediaTypes
        /\ resp.status = 415 => calls = <<>>

\* C5: an adapter call that fails by timeout is answered 504, and after a
\* timeout of the reply adapter the synthesis adapter is never invoked.
C5_TimeoutIs504 ==
    (Done /\ failure.stage \in Adapters /\ failure.timeout) =>
        /\ resp.status = 504
        /\ failure.stage = "llm" => ~Invoked("tts")

\* C6: an adapter call that fails for a reason other than a timeout is
\* answered with the upstream status when the failure carries one, and with
\* 502 otherwise.
C6_FailureIsUpstreamOr502 ==
    (Done /\ failure.stage \in Adapters /\ ~failure.timeout) =>
        resp.status = IF exc.status # 0 THEN exc.status ELSE 502

\* C7: each adapter is invoked at most once and only in the order stt, llm,
\* tts; llm only with a non-empty utterance and after stt returned if it ran;
\* tts only after llm returned; and nothing is invoked after a failure.
CallOrders ==
    { <<>>, <<"stt">>, <<"llm">>, <<"stt", "llm">>, <<"llm", "tts">>,
      <<"stt", "llm", "tts">> }
C7_OnceAndInOrder ==
    /\ calls \in CallOrders
    /\ Invoked("llm") => (Truthy(llmArg) /\ (Invoked("stt") => sttOut = llmArg))
    /\ Invoked("tts") => (reply_text # None /\ ttsArg.text = reply_text)
    /\ failure.stage \in {"normalize", "upload"} => calls = <<>>
    /\ failure.stage = "validate" => calls \in {<<>>, <<"stt">>}
    /\ failure.stage \in Adapters =>
        (calls # <<>> /\ calls[Len(calls)] = failure.stage)

C7_Witness ==
    Done /\ calls = <<"stt", "llm">> /\ failure.stage = "llm"

\* C8: every failure of /talk ends in a JSON error response with a status
\* code, an error field and the request id; no exception leaves the handler
\* unmapped; a failed temp-file removal does not change the response.
C8_FailuresAreStructured ==
    Done =>
        IF exc = NoExc
        THEN resp.status = 200
        ELSE StructuredError(resp) /\ resp.body.request_id = request_id

C8_Witness ==
    /\ Done /\ cleanupWarned /\ failure.stage = "llm" /\ exc.cls = "Exception"
    /\ resp.status = 500

\* C9: while /talk is inside a blocking adapter call, another in-flight
\* request can still be served.
C9_OthersNotBlocked ==
    (InDependencyCall /\ health = "pending") => ENABLED HealthServed

\* C10: on success the response is 200 with the envelope {request_id, text,
\* audio_base64, audio_format}: text is the reply adapter's output for the
\* utterance (the transcription, for audio without inline text; the typed
\* text, without audio), audio_base64 is the base64 text of the synthesis
\* adapter's output for that reply, and audio_format is "mp3".
C10_SuccessEnvelope ==
    (Done /\ exc = NoExc) =>
        /\ resp.status = 200
        /\ DOMAIN resp.body = {"request_id", "text", "audio_base64", "audio_format"}
        /\ resp.body.request_id = request_id
        /\ resp.body.text = reply_text
        /\ ttsArg.text = reply_text
        /\ (HasAudio(req) /\ ~HasInlineText(req)) => llmArg = sttOut
        /\ ~HasAudio(req) => llmArg = InlineText(req)
        /\ B64Decode(resp.body.audio_base64) = mp3_bytes
        /\ Len(resp.body.audio_base64) = 4 * ((Len(mp3_bytes) + 2) \div 3)
        /\ mp3_bytes = <<1, 2>> => resp.body.audio_base64 = <<"A", "Q", "I", "=">>
        /\ resp.body.audio_format = "mp3"

C10_Witness ==
    /\ Done /\ exc = NoExc /\ HasAudio(req) /\ ~HasInlineText(req)
    /\ calls = <<"stt", "llm", "tts">> /\ mp3_bytes = <<1, 2>>

====
